---------------------------- MODULE Spec2Model ----------------------------
(***************************************************************************)
(* django-roesti: content-addressed Django models.                         *)
(*                                                                         *)
(* roesti/models.py gives every HashedModel a primary key equal to the     *)
(* MD5 of the pickled, frozen dictionary of its hash_fields, and           *)
(* HashedModelManager.ensure() inserts the records of a batch that the     *)
(* database does not hold yet, after ensuring the records they reference.  *)
(* HashedListModelManager.ensure_list() stores an ordered list of items    *)
(* under the hash of the list of their keys.                               *)
(*                                                                         *)
(* The model holds the database (one set of rows per table), and one       *)
(* action per manager call.  A call is computed by operators translated    *)
(* from the Python functions; the store operations it performs are logged  *)
(* in the order the code issues them.  The schema is the one declared in   *)
(* roesti/tests.py, one class whose hash_fields name a ForeignKey to the   *)
(* class itself, and a parent class whose reverse-relation children name   *)
(* a second ForeignKey to the parent's class among their hash_fields.      *)
(*                                                                         *)
(* Python values are tagged pairs <<tag, payload>>:                        *)
(*   <<"none", "">>        None                                            *)
(*   <<"str", s>>          a string                                        *)
(*   <<"int", n>>          an integer                                      *)
(*   <<"dict", kv>>        a mapping; kv is the sequence of <<key, value>> *)
(*                         pairs in insertion order                        *)
(*   <<"list", seq>>       a list                                          *)
(*   <<"set", seq>>        a set; seq holds its elements, once each, in    *)
(*                         the order the set is walked in                  *)
(*   <<"tuple", seq>>      a tuple                                         *)
(*   <<"obj", inst>>       a model instance                                *)
(*   <<"mgr", name>>       a related manager (reverse accessor)            *)
(*   <<"md5", frozen>>     a hex digest: MD5 is taken to be free of        *)
(*                         collisions, so the digest stands for the        *)
(*                         pickled value it was computed from              *)
(*   <<"err", name>>       an exception raised while computing the value   *)
(***************************************************************************)
EXTENDS Integers, Sequences, FiniteSets, TLC

None == <<"none", "">>
PyStr(s) == <<"str", s>>
PyInt(n) == <<"int", n>>
Err(e) == <<"err", e>>
IsErr(v) == v[1] = "err"
Tag(v) == v[1]
Payload(v) == v[2]

\* Python truthiness of a content_hash value: '' and None are falsy.
Truthy(v) == ~(v = None \/ v = PyStr(""))

---------------------------------------------------------------------------
(* The schema: the model classes of roesti/tests.py.                       *)

ValField(n, dflt, null) ==
    [name |-> n, attname |-> n, kind |-> "val", to |-> "", remote |-> "",
     dflt |-> dflt, null |-> null]
ForeignKey(n, attname, to) ==
    [name |-> n, attname |-> attname, kind |-> "fk", to |-> to, remote |-> "",
     dflt |-> None, null |-> FALSE]
\* The reverse accessor a ForeignKey with related_name n puts on its target:
\* a ManyToOneRel whose remote_field is the child's ForeignKey.
ManyToOneRel(n, child, remote_attname) ==
    [name |-> n, attname |-> n, kind |-> "rev", to |-> child,
     remote |-> remote_attname, dflt |-> None, null |-> TRUE]

TestModel == "TestModel"
TestReferencesModel == "TestReferencesModel"
TestDeepReferencesDuplicateModel == "TestDeepReferencesDuplicateModel"
TestItem == "TestItem"
TestBackrefModel == "TestBackrefModel"
TestBackrefReference == "TestBackrefReference"
TestOrderedList == "TestOrderedList"
TestItemDetails == "TestItemDetails"
TestOrderedListItem == "TestOrderedListItem"
HashedList == "HashedList"
TestListItem == "TestListItem"
\* A HashedModel with hash_fields = ['name', 'parent_id'] and
\* parent = ForeignKey('self', null=True): among its hash_fields is a
\* ForeignKey to a subclass of HashedModel (models.py 92-97), itself.
SelfReferencingModel == "SelfReferencingModel"
\* A parent like TestBackrefModel (hash_fields = ['text']) and a child with
\* hash_fields = ['ref_text', 'other_id'], backref = ForeignKey(parent,
\* related_name='items') and other = ForeignKey(parent,
\* related_name='others'): when the children are inserted, the parent's
\* class is in skip_ensure (models.py 77, 101-102).
SkippedParentModel == "SkippedParentModel"
SkippedParentReference == "SkippedParentReference"

\* The subclasses of HashedModel.
HashedModels ==
    {TestModel, TestReferencesModel, TestDeepReferencesDuplicateModel,
     TestItem, TestBackrefModel, TestBackrefReference, TestOrderedList,
     TestItemDetails, TestOrderedListItem, SelfReferencingModel,
     SkippedParentModel, SkippedParentReference}

Tables == HashedModels \cup {HashedList, TestListItem}

\* _meta: the fields of each class (content_hash, the primary key, is kept
\* apart as the instance's pk).
ModelFields(cls) ==
    CASE cls = TestModel ->
           <<ValField("char_field_1", PyStr(""), FALSE),
             ValField("integer_field_1", None, FALSE)>>
      [] cls = TestReferencesModel ->
           <<ForeignKey("test_model_1", "test_model_1_id", TestModel),
             ForeignKey("test_model_2", "test_model_2_id", TestModel),
             ValField("integer_field_1", None, FALSE)>>
      [] cls = TestDeepReferencesDuplicateModel ->
           <<ForeignKey("test_references_model_1",
                        "test_references_model_1_id", TestReferencesModel),
             ForeignKey("test_references_model_2",
                        "test_references_model_2_id", TestReferencesModel),
             ForeignKey("test_model_1", "test_model_1_id", TestModel),
             ForeignKey("test_model_2", "test_model_2_id", TestModel),
             ValField("integer_field_1", None, FALSE),
             ValField("char_field_1", PyStr(""), FALSE)>>
      [] cls = TestItem ->
           <<ValField("text", None, TRUE)>>
      [] cls = TestBackrefModel ->
           <<ValField("text", PyStr(""), FALSE),
             ManyToOneRel("items", TestBackrefReference, "backref_id")>>
      [] cls = TestBackrefReference ->
           <<ValField("ref_text", PyStr(""), FALSE),
             ForeignKey("backref", "backref_id", TestBackrefModel)>>
      [] cls = TestOrderedList ->
           <<ValField("name", PyStr(""), FALSE),
             ManyToOneRel("items", TestOrderedListItem, "lst_id")>>
      [] cls = TestItemDetails ->
           <<ValField("text", PyStr(""), FALSE)>>
      [] cls = TestOrderedListItem ->
           <<ForeignKey("lst", "lst_id", TestOrderedList),
             ValField("order", None, FALSE),
             ForeignKey("details", "details_id", TestItemDetails)>>
      [] cls = TestListItem ->
           <<ForeignKey("list_hash", "list_hash_id", HashedList),
             ValField("order", None, FALSE),
             ForeignKey("item", "item_id", TestItem)>>
      [] cls = SkippedParentModel ->
           <<ValField("text", PyStr(""), FALSE),
             ManyToOneRel("items", SkippedParentReference, "backref_id"),
             ManyToOneRel("others", SkippedParentReference, "other_id")>>
      [] cls = SkippedParentReference ->
           <<ValField("ref_text", PyStr(""), FALSE),
             ForeignKey("backref", "backref_id", SkippedParentModel),
             ForeignKey("other", "other_id", SkippedParentModel)>>
      [] cls = SelfReferencingModel ->
           <<ValField("name", PyStr(""), FALSE),
             [ForeignKey("parent", "parent_id", SelfReferencingModel)
                EXCEPT !.null = TRUE]>>
      [] OTHER -> <<>>

hash_fields(cls) ==
    CASE cls = TestModel -> <<"char_field_1", "integer_field_1">>
      [] cls = TestReferencesModel ->
           <<"test_model_1_id", "test_model_2_id", "integer_field_1">>
      [] cls = TestDeepReferencesDuplicateModel ->
           <<"test_references_model_1_id", "test_references_model_2_id",
             "test_model_1_id", "test_model_2_id", "integer_field_1",
             "char_field_1">>
      [] cls = TestItem -> <<"text">>
      [] cls = TestBackrefModel -> <<"text">>
      [] cls = TestBackrefReference -> <<"ref_text">>
      [] cls = TestOrderedList -> <<"name", "items">>
      [] cls = TestItemDetails -> <<"text">>
      [] cls = TestOrderedListItem -> <<"lst_id", "order", "details">>
      [] cls = SelfReferencingModel -> <<"name", "parent_id">>
      [] cls = SkippedParentModel -> <<"text">>
      [] cls = SkippedParentReference -> <<"ref_text", "other_id">>
      [] OTHER -> <<>>

Range(s) == {s[i] : i \in DOMAIN s}

\* The columns of a class's table.
ConcreteFields(cls) == {f \in Range(ModelFields(cls)) : f.kind # "rev"}
AttNames(cls) == {f.attname : f \in ConcreteFields(cls)}
FKNames(cls) == {f.name : f \in {g \in ConcreteFields(cls) : g.kind = "fk"}}

\* Options.get_field: a forward field is found by its name or its attname,
\* a reverse relation by its name.
HasField(cls, field_name) ==
    \E f \in Range(ModelFields(cls)) :
        f.name = field_name \/ f.attname = field_name
get_field(cls, field_name) ==
    CHOOSE f \in Range(ModelFields(cls)) :
        f.name = field_name \/ f.attname = field_name

\* self.model(): a fresh instance holds every field's default, an empty
\* content_hash and no cached related object.
NewInstance(cls) ==
    [cls |-> cls,
     flds |-> [a \in AttNames(cls) |->
                 (CHOOSE f \in ConcreteFields(cls) : f.attname = a).dflt],
     pk |-> PyStr(""),
     rel |-> [n \in FKNames(cls) |-> None]]

---------------------------------------------------------------------------
(* freeze and make_hash (models.py 8-26).                                  *)

\* The keys of the dictionaries that are frozen, in Python's string order:
\* sorted() on (key, value) pairs orders them by key.
KeyOrder ==
    <<"backref", "backref_id", "char_field_1", "details", "integer_field_1",
      "items", "lst_id", "name", "order", "other", "other_id", "others",
      "parent", "parent_id", "ref_text", "test_model_1",
      "test_model_1_id", "test_model_2", "test_model_2_id",
      "test_references_model_1", "test_references_model_1_id",
      "test_references_model_2", "test_references_model_2_id", "text">>
KeyRank(k) == CHOOSE i \in DOMAIN KeyOrder : KeyOrder[i] = k

\* A (key, value) tuple and its key.
Pair(k, v) == <<"tuple", <<PyStr(k), v>>>>
PairKey(pair) == Payload(Payload(pair)[1])

\* Insert a (key, value) pair into a sequence sorted by key.
RECURSIVE InsertSorted(_, _)
InsertSorted(sorted, pair) ==
    IF sorted = <<>> THEN <<pair>>
    ELSE IF KeyRank(PairKey(pair)) < KeyRank(PairKey(Head(sorted)))
         THEN <<pair>> \o sorted
         ELSE <<Head(sorted)>> \o InsertSorted(Tail(sorted), pair)

\* A faulty sort, told apart by C16: the pairs stay in insertion order.
KeepInsertionOrder(pairs) == pairs

\* sorted(pairs) for the items of a mapping.
RECURSIVE SortPairs(_)
SortPairs(pairs) ==
    IF pairs = <<>> THEN <<>>
    ELSE InsertSorted(SortPairs(Tail(pairs)), Head(pairs))

\* A Python set walked in some order.  The sets walked here hold one
\* instance per key, and what is done with their elements (an existence
\* query on the set of keys, one INSERT of the missing rows, the batch of
\* their related objects, again cut down to one per key; freeze, which
\* sorts them) does not depend on the order.
RECURSIVE SetToSeq(_)
SetToSeq(S) ==
    IF S = {} THEN <<>>
    ELSE LET x == CHOOSE y \in S : TRUE IN <<x>> \o SetToSeq(S \ {x})

\* sorted(a set of digests): the one arrangement of the set in the order of
\* the hex strings.  That order is fixed but not known to the model, so the
\* arrangement is one chosen per set.
SortedSet(S) == CHOOSE s \in [1..Cardinality(S) -> S] : Range(s) = S

RECURSIVE freeze(_)
freeze(obj) ==
    CASE Tag(obj) = "dict" ->
           LET kv == Payload(obj) IN
           <<"tuple",
             SortPairs([i \in DOMAIN kv |-> Pair(kv[i][1], freeze(kv[i][2]))])>>
      [] Tag(obj) = "list" ->
           LET s == Payload(obj) IN
           <<"tuple", [i \in DOMAIN s |-> freeze(s[i])]>>
      [] Tag(obj) = "set" -> <<"tuple", SortedSet(Range(Payload(obj)))>>
      [] Tag(obj) = "obj" ->
           \* an instance that has an `items` reverse manager is taken for a
           \* mapping, and calling the manager does not give pairs
           IF HasField(Payload(obj).cls, "items")
           THEN Err("TypeError") ELSE obj
      [] OTHER -> obj

\* pickle.dumps raises on a related manager (a class local to a function),
\* and an exception raised while building the value propagates.
RECURSIVE Picklable(_)
Picklable(v) ==
    CASE Tag(v) = "tuple" -> \A i \in DOMAIN Payload(v) : Picklable(Payload(v)[i])
      [] Tag(v) \in {"mgr", "err"} -> FALSE
      [] OTHER -> TRUE

make_hash(obj) ==
    LET frozen == freeze(obj) IN
    IF Picklable(frozen) THEN <<"md5", frozen>> ELSE Err("PicklingError")

---------------------------------------------------------------------------
(* Python sets of model instances.  Model.__eq__ and __hash__ go by the    *)
(* primary key, so a set holds one instance per key and adding an instance *)
(* whose key is already there leaves the set as it was.                    *)

SetAdd(s, inst) ==
    IF \E other \in s : other.pk = inst.pk THEN s ELSE s \cup {inst}

RECURSIVE SetUpdateSeq(_, _)
SetUpdateSeq(s, insts) ==
    IF insts = <<>> THEN s
    ELSE SetUpdateSeq(SetAdd(s, Head(insts)), Tail(insts))

\* set.update(other): other holds one instance per key, so the order in
\* which it is walked does not matter.
SetUpdate(s, other) ==
    s \cup {inst \in other : ~(\E mine \in s : mine.pk = inst.pk)}

\* A defaultdict(set) keyed by (model, attname) is a function on the keys
\* it holds.
EmptyRelations == [key \in {} |-> {}]
RelAt(rr, key) == IF key \in DOMAIN rr THEN rr[key] ELSE {}

\* HashedModel._accumulate_dict (models.py 161-165)
_accumulate_dict(target, source) ==
    [key \in DOMAIN target \cup DOMAIN source |->
        SetUpdate(RelAt(target, key), RelAt(source, key))]

---------------------------------------------------------------------------
(* HashedModel (models.py 131-219).                                        *)

\* A faulty _get_hash_field, told apart by C10: the instances accumulated
\* for a reverse relation are left out of the value that is hashed.
GetHashFieldWithoutRelated(self, field_name, reverse_relations) ==
    LET field == get_field(self.cls, field_name) IN
    CASE field.kind = "rev" -> <<"set", <<>> >>
      [] field.kind = "fk" /\ field_name = field.name ->
           IF self.rel[field.name] # None THEN self.rel[field.name]
           ELSE Err("RelatedObjectDoesNotExist")
      [] OTHER -> self.flds[field.attname]

\* _get_hash_field (models.py 139-150): getattr, and for a related manager
\* the set of keys of the instances accumulated for that relation.
_get_hash_field(self, field_name, reverse_relations) ==
    LET field == get_field(self.cls, field_name) IN
    CASE field.kind = "rev" ->
           LET key == <<field.to, field.remote>> IN
           IF key \in DOMAIN reverse_relations
           THEN <<"set", SetToSeq({instance.pk :
                                     instance \in reverse_relations[key]})>>
           ELSE <<"mgr", field.name>>
      [] field.kind = "fk" /\ field_name = field.name ->
           \* the related object: the cached one; without a cached one the
           \* descriptor raises for an unset key (a set key without a cached
           \* object is not built by any input of this model)
           IF self.rel[field.name] # None THEN self.rel[field.name]
           ELSE Err("RelatedObjectDoesNotExist")
      [] OTHER -> self.flds[field.attname]

\* _get_hash_field_dict (models.py 152-156)
_get_hash_field_dict(self, reverse_relations) ==
    LET hf == hash_fields(self.cls) IN
    <<"dict", [i \in DOMAIN hf |->
                 <<hf[i], _get_hash_field(self, hf[i], reverse_relations)>>]>>

\* get_content_hash (models.py 158-159)
get_content_hash(self, reverse_relations) ==
    make_hash(_get_hash_field_dict(self, reverse_relations))

\* setattr(self, field_name, value) on a model instance; an error is
\* reported in place of the instance.
SetAttr(self, field_name, value) ==
    LET field == get_field(self.cls, field_name) IN
    CASE field.kind = "rev" -> Err("TypeError")
      [] field.kind = "fk" /\ field_name = field.name /\ field.name # field.attname ->
           IF Tag(value) = "obj" /\ Payload(value).cls = field.to
           THEN <<"obj", [self EXCEPT !.flds[field.attname] = Payload(value).pk,
                                      !.rel[field.name] = value]>>
           ELSE Err("ValueError")
      [] OTHER -> <<"obj", [self EXCEPT !.flds[field.attname] = value]>>

RECURSIVE from_dict(_, _)
RECURSIVE SetDictItems(_, _, _)
RECURSIVE ReverseItems(_, _, _, _)

\* reverse_relations[key].add(instance) and the accumulation of what the
\* instance brought along (models.py 195-197)
AddRelated(rr, key, made) ==
    _accumulate_dict(
        [k \in DOMAIN rr \cup {key} |->
            IF k = key THEN SetAdd(RelAt(rr, key), made.inst) ELSE rr[k]],
        made.rr)

\* One turn of the loop over a reverse relation's items, given the instance
\* made of the item.
ReverseNext(RelatedModel, key, items, acc, made) ==
    IF made.err # "" THEN [acc EXCEPT !.err = made.err]
    ELSE ReverseItems(RelatedModel, key, Tail(items),
                      [acc EXCEPT !.rr = AddRelated(acc.rr, key, made)])

\* The loop of set_dict over a reverse relation's items (models.py 193-197):
\* acc is [rr, err].
ReverseItems(RelatedModel, key, items, acc) ==
    IF items = <<>> \/ acc.err # "" THEN acc
    ELSE IF Tag(Head(items)) # "dict"
         THEN [acc EXCEPT !.err = "AttributeError"]
         ELSE ReverseNext(RelatedModel, key, items, acc,
                          from_dict(RelatedModel, Head(items)))

\* A mapping given for a reference to a HashedModel becomes an instance
\* (models.py 180-181).
Embedded(rr, made) ==
    [value |-> <<"obj", made.inst>>, rr |-> _accumulate_dict(rr, made.rr),
     err |-> made.err]

\* The items given for a reverse relation are accumulated and not set on
\* the instance (models.py 193-200).
Collected(done) == [value |-> None, rr |-> done.rr, err |-> done.err]

\* The branch of set_dict on the kind of value (models.py 176-200):
\* [value, rr, err], the value to set and the relations accumulated.
ResolveValue(rr, field, value) ==
    CASE Tag(value) = "dict" ->
           IF field.kind # "fk"
           THEN [value |-> value, rr |-> rr, err |-> "AttributeError"]
           ELSE IF field.to \in HashedModels
           THEN Embedded(rr, from_dict(field.to, value))
           ELSE [value |-> value, rr |-> rr, err |-> ""]
      [] Tag(value) \in {"list", "set", "tuple"} ->
           IF field.kind = "rev"
           THEN Collected(ReverseItems(field.to, <<field.to, field.remote>>,
                                       Payload(value), [rr |-> rr, err |-> ""]))
           ELSE [value |-> value, rr |-> rr, err |-> ""]
      [] OTHER -> [value |-> value, rr |-> rr, err |-> ""]

\* models.py 203-204, given the outcome of setattr
SetDictAssigned(st, kv, i, rr, set) ==
    IF IsErr(set) THEN [st EXCEPT !.err = Payload(set)]
    ELSE SetDictItems([st EXCEPT !.inst = Payload(set), !.rr = rr], kv, i + 1)

\* models.py 202-204, given the value the branch left
SetDictNext(st, kv, i, got) ==
    IF got.err # "" THEN [st EXCEPT !.err = got.err]
    ELSE IF got.value = None
    THEN SetDictItems([st EXCEPT !.rr = got.rr], kv, i + 1)
    ELSE SetDictAssigned(st, kv, i, got.rr,
                         SetAttr(st.inst, kv[i][1], got.value))

\* The loop of set_dict over item_dict.items() (models.py 172-204): st is
\* [inst, rr, err].
SetDictItems(st, kv, i) ==
    IF i > Len(kv) \/ st.err # "" THEN st
    ELSE IF ~HasField(st.inst.cls, kv[i][1])
    THEN [st EXCEPT !.err = "FieldDoesNotExist"]
    ELSE SetDictNext(st, kv, i,
             ResolveValue(st.rr, get_field(st.inst.cls, kv[i][1]), kv[i][2]))

\* The back-references of set_dict (models.py 210-217): every instance
\* accumulated under a relation that points to self's class gets self's
\* content_hash as its foreign key.
BackPatch(self_cls, content_hash, reverse_relations) ==
    [key \in DOMAIN reverse_relations |->
        IF get_field(key[1], key[2]).to # self_cls
        THEN reverse_relations[key]
        ELSE {[instance EXCEPT !.flds[key[2]] = content_hash] :
                 instance \in reverse_relations[key]}]

\* models.py 207-219, given the hash computed
SetContentHash(st, content_hash) ==
    IF IsErr(content_hash) THEN [st EXCEPT !.err = Payload(content_hash)]
    ELSE [inst |-> [st.inst EXCEPT !.pk = content_hash],
          rr |-> BackPatch(st.inst.cls, content_hash, st.rr),
          err |-> ""]

\* models.py 206-219, given the fields set
HashAndPatch(st) ==
    IF st.err # "" THEN st
    ELSE SetContentHash(st, get_content_hash(st.inst, st.rr))

\* set_dict (models.py 167-219): [inst, rr, err]
set_dict(self, item_dict) ==
    HashAndPatch(SetDictItems([inst |-> self, rr |-> EmptyRelations, err |-> ""],
                              Payload(item_dict), 1))

\* HashedModelManager.from_dict (models.py 30-36)
from_dict(cls, item_dict) == set_dict(NewInstance(cls), item_dict)

---------------------------------------------------------------------------
(* The database.  A row is [pk, flds]: the primary key and the columns.    *)
(* A call runs in a context [db, ops, failAt, err, depth]: the database as  *)
(* the transaction sees it, the log of the store operations done so far,   *)
(* the number of the store operation at which the store fails (0: it does  *)
(* not), the exception raised, "" while there is none, and the number of   *)
(* _ensure_impl calls that have not returned.                              *)

\* The row an INSERT into a table makes of an instance: the compiler reads
\* the attribute of each column of the table off the instance, whatever the
\* instance's class.
RowOf(table, instance) ==
    [pk |-> instance.pk,
     flds |-> [a \in AttNames(table) |-> instance.flds[a]]]
Pks(rows) == {row.pk : row \in rows}

\* The store fails on the operation that comes next.
StoreFailsNow(ctx) == ctx.failAt = Len(ctx.ops) + 1

\* A faulty existence query, told apart by C2: it finds no row.
QueryNothingFound(ctx, table, all_pks) ==
    IF all_pks = {} THEN [ctx |-> ctx, existing_pks |-> {}]
    ELSE IF StoreFailsNow(ctx)
    THEN [ctx |-> [ctx EXCEPT !.err = "DatabaseError"], existing_pks |-> {}]
    ELSE [ctx |-> [ctx EXCEPT !.ops = Append(@,
                      [op |-> "query", table |-> table, pks |-> all_pks,
                       rows |-> {}])],
          existing_pks |-> {}]

\* InsertModel.objects.filter(pk__in=all_pks).values_list('pk', flat=True)
\* (models.py 109-110): [ctx, existing_pks].  For an empty pk__in the ORM
\* answers without asking the database.
QueryExisting(ctx, table, all_pks) ==
    IF all_pks = {} THEN [ctx |-> ctx, existing_pks |-> {}]
    ELSE IF StoreFailsNow(ctx)
    THEN [ctx |-> [ctx EXCEPT !.err = "DatabaseError"], existing_pks |-> {}]
    ELSE [ctx |-> [ctx EXCEPT !.ops = Append(@,
                      [op |-> "query", table |-> table, pks |-> all_pks,
                       rows |-> {}])],
          existing_pks |-> Pks(ctx.db[table]) \cap all_pks]

\* A NOT NULL column holding None, or a primary key that is taken (in the
\* table, or by two rows of the batch), makes the INSERT fail.
\* An instance of another class may lack the attribute of a column.
LacksColumn(table, instances) ==
    \E i \in DOMAIN instances :
        \E a \in AttNames(table) : a \notin DOMAIN instances[i].flds

ViolatesConstraint(ctx, table, instances) ==
    \/ \E i \in DOMAIN instances :
          \/ instances[i].pk \in Pks(ctx.db[table])
          \/ instances[i].pk = None
          \/ \E j \in DOMAIN instances : j # i /\ instances[j].pk = instances[i].pk
          \/ \E f \in ConcreteFields(table) :
                ~f.null /\ instances[i].flds[f.attname] = None

\* A faulty bulk_create, told apart by C5: one INSERT per row.
RECURSIVE CreateEach(_, _, _)
CreateEach(ctx, table, instances) ==
    IF instances = <<>> \/ ctx.err # "" THEN ctx
    ELSE IF StoreFailsNow(ctx) THEN [ctx EXCEPT !.err = "DatabaseError"]
    ELSE IF LacksColumn(table, <<Head(instances)>>)
    THEN [ctx EXCEPT !.err = "AttributeError"]
    ELSE IF ViolatesConstraint(ctx, table, <<Head(instances)>>)
    THEN [ctx EXCEPT !.err = "IntegrityError"]
    ELSE CreateEach(
            [ctx EXCEPT !.db[table] = @ \cup {RowOf(table, Head(instances))},
                        !.ops = Append(@, [op |-> "insert", table |-> table,
                                           pks |-> {Head(instances).pk},
                                           rows |-> {RowOf(table, Head(instances))}])],
            table, Tail(instances))

\* Manager.bulk_create: one INSERT of all the rows, none for no rows.  The
\* rows are made of the table's columns; the class of the instances is not
\* looked at.
bulk_create(ctx, table, instances) ==
    IF instances = <<>> THEN ctx
    ELSE IF LacksColumn(table, instances)
    THEN [ctx EXCEPT !.err = "AttributeError"]
    ELSE IF StoreFailsNow(ctx) THEN [ctx EXCEPT !.err = "DatabaseError"]
    ELSE IF ViolatesConstraint(ctx, table, instances)
    THEN [ctx EXCEPT !.err = "IntegrityError"]
    ELSE LET rows == {RowOf(table, instances[i]) : i \in DOMAIN instances} IN
         [ctx EXCEPT !.db[table] = @ \cup rows,
                     !.ops = Append(@, [op |-> "insert", table |-> table,
                                        pks |-> Pks(rows), rows |-> rows])]

---------------------------------------------------------------------------
(* HashedModelManager (models.py 29-119).                                  *)

\* A faulty dedup, told apart by C1: only the first instance is kept.
DedupToFirst(instances, seen) ==
    IF instances = <<>> THEN seen ELSE Append(seen, Head(instances))

\* {instance.pk: instance for instance in instances}.values() (models.py
\* 83-86): one instance per key, at the place of the key's first instance,
\* and the key's last instance.
RECURSIVE DedupByPk(_, _)
DedupByPk(instances, seen) ==
    IF instances = <<>> THEN seen
    ELSE LET instance == Head(instances) IN
         DedupByPk(Tail(instances),
            IF \E i \in DOMAIN seen : seen[i].pk = instance.pk
            THEN [i \in DOMAIN seen |->
                    IF seen[i].pk = instance.pk THEN instance ELSE seen[i]]
            ELSE Append(seen, instance))

\* table_references (models.py 91-97) as a sequence of [table, field_names],
\* the tables in the order the hash_fields first name them.
RECURSIVE TableReferences(_, _, _)
TableReferences(InsertModel, i, acc) ==
    IF i > Len(hash_fields(InsertModel)) THEN acc
    ELSE LET field == get_field(InsertModel, hash_fields(InsertModel)[i]) IN
         IF field.kind = "fk" /\ field.to \in HashedModels
         THEN TableReferences(InsertModel, i + 1,
                IF \E k \in DOMAIN acc : acc[k].table = field.to
                THEN [k \in DOMAIN acc |->
                        IF acc[k].table = field.to
                        THEN [acc[k] EXCEPT !.field_names = Append(@, field.name)]
                        ELSE acc[k]]
                ELSE Append(acc, [table |-> field.to,
                                  field_names |-> <<field.name>>]))
         ELSE TableReferences(InsertModel, i + 1, acc)

\* getattr(instance, field_name) for a ForeignKey's name: the cached related
\* object, else the row the key names, read from the database; None for a
\* nullable ForeignKey that is not set.
GetRelated(db, instance, field_name) ==
    LET field == get_field(instance.cls, field_name) IN
    IF field_name \notin DOMAIN instance.rel THEN Err("AttributeError")
    ELSE IF instance.rel[field_name] # None THEN instance.rel[field_name]
    ELSE IF instance.flds[field.attname] = None
    THEN IF field.null THEN None ELSE Err("RelatedObjectDoesNotExist")
    ELSE IF \E row \in db[field.to] : row.pk = instance.flds[field.attname]
    THEN LET row == CHOOSE r \in db[field.to] : r.pk = instance.flds[field.attname]
         IN <<"obj", [cls |-> field.to, flds |-> row.flds, pk |-> row.pk,
                      rel |-> [n \in FKNames(field.to) |-> None]]>>
    ELSE Err("DoesNotExist")

\* The generator of models.py 103-105: for each field name, each instance's
\* related object.
RelatedItems(db, instances, field_names) ==
    [k \in 1..(Len(field_names) * Len(instances)) |->
        GetRelated(db, instances[((k - 1) % Len(instances)) + 1],
                   field_names[((k - 1) \div Len(instances)) + 1])]

\* The deepest nesting of _ensure_impl calls the interpreter allows (the
\* schema of the tests nests them three deep).
RecursionLimit == 4

RECURSIVE _ensure_impl(_, _, _)
RECURSIVE _do_insert(_, _, _, _)
RECURSIVE EnsureReferences(_, _, _, _, _)
RECURSIVE InsertRelated(_, _, _, _)
RECURSIVE Normalize(_, _, _)

\* models.py 62-65, given the instance made of the mapping
NormalizeMade(cls, items, acc, made) ==
    IF made.err # "" THEN [acc EXCEPT !.err = made.err]
    ELSE Normalize(cls, Tail(items),
            [acc EXCEPT !.instances = Append(@, made.inst),
                        !.related_mapping = _accumulate_dict(@, made.rr)])

\* A faulty normalisation, told apart by C18: an instance that comes
\* without a content_hash is left without one.
NormalizeUnhashed(cls, items, acc, instance, content_hash) ==
    IF IsErr(content_hash) THEN [acc EXCEPT !.err = Payload(content_hash)]
    ELSE Normalize(cls, Tail(items),
            [acc EXCEPT !.instances = Append(@, instance)])

\* models.py 67-69, given the hash computed for an instance that has none
NormalizeHashed(cls, items, acc, instance, content_hash) ==
    IF IsErr(content_hash) THEN [acc EXCEPT !.err = Payload(content_hash)]
    ELSE Normalize(cls, Tail(items),
            [acc EXCEPT !.instances =
                Append(@, [instance EXCEPT !.pk = content_hash])])

\* The normalisation loop of _ensure_impl (models.py 58-71): acc is
\* [instances, related_mapping, err].  An item whose evaluation raised (the
\* generator of models.py 103-105) ends the loop with that exception.
Normalize(cls, items, acc) ==
    IF items = <<>> \/ acc.err # "" THEN acc
    ELSE
      CASE Tag(Head(items)) = "dict" ->
             NormalizeMade(cls, items, acc, from_dict(cls, Head(items)))
        [] Tag(Head(items)) = "obj" ->
             IF Truthy(Payload(Head(items)).pk)
             THEN Normalize(cls, Tail(items),
                            [acc EXCEPT !.instances =
                                Append(@, Payload(Head(items)))])
             ELSE NormalizeHashed(cls, items, acc, Payload(Head(items)),
                     get_content_hash(Payload(Head(items)), EmptyRelations))
        [] Tag(Head(items)) = "err" -> [acc EXCEPT !.err = Payload(Head(items))]
        [] OTHER -> [acc EXCEPT !.err = "ValueError"]

\* The loop of models.py 100-105 from the k-th referenced table on.
EnsureReferences(refs, k, instances, skip_ensure, ctx) ==
    IF k > Len(refs) \/ ctx.err # "" THEN ctx
    ELSE EnsureReferences(refs, k + 1, instances, skip_ensure,
            IF refs[k].table \in skip_ensure THEN ctx
            ELSE _ensure_impl(refs[k].table,
                     RelatedItems(ctx.db, instances, refs[k].field_names),
                     ctx).ctx)

\* A faulty insert step, told apart by C17: an upsert, which writes every
\* instance of the batch over the row its key names.
UpsertAll(InsertModel, unique, found) ==
    IF found.ctx.err # "" \/ unique = <<>>
    THEN [instances |-> unique, ctx |-> found.ctx]
    ELSE [instances |-> unique,
          ctx |-> [found.ctx EXCEPT
                     !.db[InsertModel] =
                         {row \in @ : \A i \in DOMAIN unique :
                                          row.pk # unique[i].pk}
                         \cup {RowOf(InsertModel, unique[i]) :
                                 i \in DOMAIN unique},
                     !.ops = Append(@,
                         [op |-> "insert", table |-> InsertModel,
                          pks |-> {unique[i].pk : i \in DOMAIN unique},
                          rows |-> {RowOf(InsertModel, unique[i]) :
                                      i \in DOMAIN unique}])]]

\* models.py 112-119, given the answer of the existence query
InsertMissing(InsertModel, unique, found) ==
    IF found.ctx.err # "" THEN [instances |-> unique, ctx |-> found.ctx]
    ELSE IF Cardinality({unique[i].pk : i \in DOMAIN unique})
              > Cardinality(found.existing_pks)
    THEN [instances |-> unique,
          ctx |-> bulk_create(found.ctx, InsertModel,
                    SelectSeq(unique, LAMBDA instance :
                                instance.pk \notin found.existing_pks))]
    ELSE [instances |-> unique, ctx |-> found.ctx]

\* A faulty insert step, told apart by C19: the rows are written without
\* the existence query.
InsertUnqueried(InsertModel, unique, ensured) ==
    IF ensured.err # "" THEN [instances |-> unique, ctx |-> ensured]
    ELSE InsertMissing(InsertModel, unique,
            [ctx |-> ensured,
             existing_pks |-> Pks(ensured.db[InsertModel])
                                \cap {unique[i].pk : i \in DOMAIN unique}])

\* models.py 107-119, given the context the references were ensured in
InsertChecked(InsertModel, unique, ensured) ==
    IF ensured.err # "" THEN [instances |-> unique, ctx |-> ensured]
    ELSE InsertMissing(InsertModel, unique,
            QueryExisting(ensured, InsertModel,
                          {unique[i].pk : i \in DOMAIN unique}))

\* models.py 88-119, given the instances cut down to one per key
InsertUnique(InsertModel, unique, skip_ensure, ctx) ==
    InsertChecked(InsertModel, unique,
        EnsureReferences(TableReferences(InsertModel, 1, <<>>), 1, unique,
                         skip_ensure, ctx))

\* A faulty _do_insert, told apart by C6: the rows are cut down to one per
\* key, and the instances returned are not.
InsertAndKeepAll(InsertModel, instances, skip_ensure, ctx) ==
    [instances |-> instances,
     ctx |-> InsertUnique(InsertModel, DedupByPk(instances, <<>>),
                          skip_ensure, ctx).ctx]

\* _do_insert (models.py 81-119): [instances, ctx]
_do_insert(InsertModel, instances, skip_ensure, ctx) ==
    InsertUnique(InsertModel, DedupByPk(instances, <<>>), skip_ensure, ctx)

\* The loop of models.py 76-77 over the relations accumulated.
InsertRelated(cls, related_mapping, keys, ctx) ==
    IF keys = <<>> \/ ctx.err # "" THEN ctx
    ELSE InsertRelated(cls, related_mapping, Tail(keys),
            _do_insert(Head(keys)[1], SetToSeq(related_mapping[Head(keys)]),
                       {cls}, ctx).ctx)

\* models.py 75-79, given the outcome of inserting the instances
EnsureRelated(cls, related_mapping, inserted) ==
    [instances |-> inserted.instances,
     ctx |-> InsertRelated(cls, related_mapping,
                           SetToSeq(DOMAIN related_mapping), inserted.ctx)]

\* models.py 73-79, given the normalised items
EnsureNormal(cls, normal, ctx) ==
    IF normal.err # ""
    THEN [instances |-> <<>>, ctx |-> [ctx EXCEPT !.err = normal.err]]
    ELSE EnsureRelated(cls, normal.related_mapping,
                       _do_insert(cls, normal.instances, {}, ctx))

\* The call returns to its caller, one level up.
EnsureReturned(done) == [done EXCEPT !.ctx.depth = @ - 1]

\* _ensure_impl (models.py 51-79): [instances, ctx].  The interpreter ends
\* a nesting of calls deeper than its recursion limit by an exception.
_ensure_impl(cls, items, ctx) ==
    IF ctx.depth >= RecursionLimit
    THEN [instances |-> <<>>, ctx |-> [ctx EXCEPT !.err = "RecursionError"]]
    ELSE EnsureReturned(
            EnsureNormal(cls,
                Normalize(cls, items,
                          [instances |-> <<>>,
                           related_mapping |-> EmptyRelations, err |-> ""]),
                [ctx EXCEPT !.depth = @ + 1]))

\* A faulty transaction, told apart by C8: what was written before the
\* exception stays.
NoRollback(db, ctx, result) ==
    [db |-> ctx.db,
     err |-> ctx.err,
     result |-> IF ctx.err # "" THEN <<>> ELSE result,
     ops |-> ctx.ops]

\* A transaction.atomic block that ends by an exception is rolled back:
\* what a call that ran in the context ctx leaves and returns.
Atomic(db, ctx, result) ==
    [db |-> IF ctx.err # "" THEN db ELSE ctx.db,
     err |-> ctx.err,
     result |-> IF ctx.err # "" THEN <<>> ELSE result,
     ops |-> ctx.ops]

NewContext(db, failAt) ==
    [db |-> db, ops |-> <<>>, failAt |-> failAt, err |-> "", depth |-> 0]

\* list(self._ensure_impl(items)) in the transaction (models.py 49)
EnsureDone(db, done) == Atomic(db, done.ctx, done.instances)

\* ensure (models.py 38-49): [db, err, result, ops], the database the call
\* leaves, the exception it raised, the list it returned and the store
\* operations it made
ensure(cls, items, db, failAt) ==
    EnsureDone(db, _ensure_impl(cls, items, NewContext(db, failAt)))

---------------------------------------------------------------------------
(* HashedListModelManager and HashedListItemModelManager (models.py        *)
(* 228-275).                                                               *)

\* ensure_items (models.py 267-275): one INSERT of a TestListItem per item,
\* numbered from 1; the table gives each row the next free id.
ensure_items(ctx, list_hash, items) ==
    IF \E order \in DOMAIN items : items[order].cls # TestItem
    THEN [ctx EXCEPT !.err = "ValueError"]
    ELSE IF items = <<>> THEN ctx
    ELSE IF StoreFailsNow(ctx) THEN [ctx EXCEPT !.err = "DatabaseError"]
    ELSE [ctx EXCEPT
            !.db[TestListItem] = @ \cup
                {[pk |-> PyInt(Cardinality(ctx.db[TestListItem]) + order),
                  flds |-> [list_hash_id |-> list_hash,
                            order |-> PyInt(order),
                            item_id |-> items[order].pk]] :
                    order \in DOMAIN items},
            !.ops = Append(@,
                [op |-> "insert", table |-> TestListItem,
                 pks |-> {PyInt(Cardinality(ctx.db[TestListItem]) + order) :
                            order \in DOMAIN items},
                 rows |->
                   {[pk |-> PyInt(Cardinality(ctx.db[TestListItem]) + order),
                     flds |-> [list_hash_id |-> list_hash,
                               order |-> PyInt(order),
                               item_id |-> items[order].pk]] :
                       order \in DOMAIN items}])]

HashedListInstance(list_hash) ==
    [cls |-> HashedList, flds |-> NewInstance(HashedList).flds,
     pk |-> list_hash, rel |-> NewInstance(HashedList).rel]

\* models.py 245-250, given the context the list row was created in
ListCreated(created, list_hash, item_instances) ==
    IF created.err # "" THEN created
    ELSE ensure_items(created, list_hash, item_instances)

\* A faulty ensure_list, told apart by C13: the membership rows of a list
\* that exists are written again.
ListFoundRewritesMembership(lst, list_hash, item_instances) ==
    IF lst.ctx.err # "" THEN lst.ctx
    ELSE IF lst.existing_pks # {}
    THEN ensure_items(lst.ctx, list_hash, item_instances)
    ELSE ListCreated(bulk_create(lst.ctx, HashedList,
                                 <<HashedListInstance(list_hash)>>),
                     list_hash, item_instances)

\* models.py 240-250, given the answer of self.filter(pk=list_hash)
ListFound(lst, list_hash, item_instances) ==
    IF lst.ctx.err # "" \/ lst.existing_pks # {} THEN lst.ctx
    ELSE ListCreated(bulk_create(lst.ctx, HashedList,
                                 <<HashedListInstance(list_hash)>>),
                     list_hash, item_instances)

\* models.py 237-252, given the items ensured and the hash of their keys
ListHashed(db, ensured, list_hash) ==
    Atomic(db,
           IF ensured.ctx.err # "" THEN ensured.ctx
           ELSE ListFound(QueryExisting(ensured.ctx, HashedList, {list_hash}),
                          list_hash, ensured.instances),
           <<HashedListInstance(list_hash)>>)

\* models.py 235-252, given the items ensured
ListEnsured(db, ensured) ==
    ListHashed(db, ensured,
               make_hash(<<"list", [i \in DOMAIN ensured.instances |->
                                      ensured.instances[i].pk]>>))

\* ensure_list (models.py 232-252): [db, err, result, ops] as for ensure;
\* result holds the HashedList returned.
ensure_list(ItemModel, items, db, failAt) ==
    ListEnsured(db, _ensure_impl(ItemModel, items, NewContext(db, failAt)))

---------------------------------------------------------------------------
(* The callers: the batches handed to ensure and ensure_list.              *)

\* The most calls in a run, and the most items in a batch.
MaxCalls == 2
MaxBatch == 2

Dict(kv) == <<"dict", kv>>
List(seq) == <<"list", seq>>

\* Model(**fields): an instance built by the caller, with a content_hash the
\* caller may have set.
Record(cls, kv, content_hash) ==
    <<"obj", [cls |-> cls,
              flds |-> [a \in AttNames(cls) |->
                          IF \E i \in DOMAIN kv : kv[i][1] = a
                          THEN kv[CHOOSE i \in DOMAIN kv : kv[i][1] = a][2]
                          ELSE NewInstance(cls).flds[a]],
              pk |-> content_hash,
              rel |-> NewInstance(cls).rel]>>

TestModelData(char, int) ==
    << <<"char_field_1", PyStr(char)>>, <<"integer_field_1", PyInt(int)>> >>
ItemData(order, text) ==
    Dict(<< <<"order", PyInt(order)>>,
            <<"details", Dict(<< <<"text", PyStr(text)>> >>)>> >>)
RefData(text) == Dict(<< <<"ref_text", PyStr(text)>> >>)
ReferencesData ==
    Dict(<< <<"test_model_1", Dict(TestModelData("a", 1))>>,
            <<"test_model_2", Dict(TestModelData("b", 1))>>,
            <<"integer_field_1", PyInt(3)>> >>)
DeepData(char) ==
    Dict(<< <<"test_references_model_1", ReferencesData>>,
            <<"test_references_model_2", ReferencesData>>,
            <<"test_model_1", Dict(TestModelData(char, 1))>>,
            <<"test_model_2", Dict(TestModelData(char, 1))>>,
            <<"integer_field_1", PyInt(1)>>,
            <<"char_field_1", PyStr("string")>> >>)

\* The items a caller passes for each class: mappings as the tests pass
\* them, instances with and without a content_hash of their own, an
\* instance whose references are not set, an instance of another class,
\* and a value that is neither.
ItemsOf(cls) ==
    CASE cls = TestModel ->
           {Dict(TestModelData("a", 1)),
            Dict(TestModelData("b", 1)),
            Record(TestModel, TestModelData("a", 1), PyStr("")),
            Record(TestModel, TestModelData("a", 1),
                   make_hash(Dict(TestModelData("b", 1)))),
            PyStr("bad")}
      [] cls = TestReferencesModel ->
           {ReferencesData,
            Dict(<< <<"test_model_1", Dict(TestModelData("b", 1))>>,
                    <<"test_model_2", Dict(TestModelData("b", 1))>>,
                    <<"integer_field_1", PyInt(3)>> >>),
            Record(TestReferencesModel, << <<"integer_field_1", PyInt(3)>> >>,
                   PyStr(""))}
      [] cls = TestDeepReferencesDuplicateModel ->
           {DeepData("a"), DeepData("c")}
      [] cls = TestBackrefModel ->
           {Dict(<< <<"text", PyStr("A")>>,
                    <<"items", List(<<RefData("x")>>)>> >>),
            Dict(<< <<"text", PyStr("B")>>,
                    <<"items", List(<<RefData("x")>>)>> >>),
            Dict(<< <<"text", PyStr("A")>>,
                    <<"items", List(<<RefData("y"), RefData("x")>>)>> >>)}
      [] cls = TestBackrefReference ->
           {Dict(<< <<"ref_text", PyStr("x")>>,
                    <<"backref", Dict(<< <<"text", PyStr("A")>> >>)>> >>),
            RefData("x")}
      [] cls = TestOrderedList ->
           {Dict(<< <<"name", PyStr("L")>>,
                    <<"items", List(<<ItemData(0, "d0"), ItemData(1, "d1")>>)>> >>),
            Dict(<< <<"name", PyStr("L")>>,
                    <<"items", List(<<ItemData(1, "d1"), ItemData(0, "d0")>>)>> >>),
            Dict(<< <<"name", PyStr("L")>>,
                    <<"items", List(<<ItemData(0, "d0")>>)>> >>),
            Dict(<< <<"name", PyStr("L")>>, <<"items", List(<<>>)>> >>),
            \* a list whose one item names, as its `lst`, another list with
            \* an item of its own
            Dict(<< <<"name", PyStr("L")>>,
                    <<"items", List(<<
                        Dict(<< <<"order", PyInt(0)>>,
                                <<"details", Dict(<< <<"text", PyStr("d0")>> >>)>>,
                                <<"lst", Dict(<<
                                    <<"name", PyStr("M")>>,
                                    <<"items", List(<<ItemData(1, "d1")>>)>>
                                 >>)>> >>) >>)>> >>)}
      [] cls = SkippedParentModel ->
           {Dict(<< <<"text", PyStr("P")>>,
                    <<"items", List(<<
                        Dict(<< <<"ref_text", PyStr("x")>>,
                                <<"other", Dict(<< <<"text", PyStr("Q")>> >>)>>
                             >>) >>)>> >>)}
      [] cls = SelfReferencingModel ->
           {Dict(<< <<"name", PyStr("r")>> >>),
            Dict(<< <<"name", PyStr("c")>>,
                    <<"parent", Dict(<< <<"name", PyStr("r")>> >>)>> >>)}
      [] cls = TestItem ->
           {Record(TestItem, << <<"text", PyStr("t0")>> >>, PyStr("")),
            Record(TestItem, << <<"text", PyStr("t1")>> >>, PyStr("")),
            Record(TestItemDetails, << <<"text", PyStr("t0")>> >>, PyStr(""))}
      [] OTHER -> {}

\* The classes whose manager the callers use.
EnsuredModels ==
    {TestModel, TestReferencesModel, TestDeepReferencesDuplicateModel,
     TestBackrefModel, TestBackrefReference, TestOrderedList, TestItem,
     SelfReferencingModel, SkippedParentModel}

\* The batches of at most MaxBatch items of a class.
Batches(cls) ==
    UNION {[1..n -> ItemsOf(cls)] : n \in 0..MaxBatch}

---------------------------------------------------------------------------
(* The state machine.                                                      *)

VARIABLES
    db,      \* the committed rows of each table
    calls,   \* the number of calls made
    last,    \* the call that has returned and not yet been taken, if any
    ensured, \* for each table, the keys that the calls that returned a
             \* result have resolved: the history the store is compared to
    txns     \* for each concurrent caller, the ensure call it is in

vars == <<db, calls, last, ensured, txns>>

\* The most callers that are in an ensure call at a time.
MaxProcs == 2
Procs == 1..MaxProcs

\* A caller that is in no call.  A caller in a call holds the class and
\* the items, the insert steps of the call ([table, instances], in the
\* order the code comes to them), the number of the step it is at, the
\* answer of the step's existence query, the rows it has written in its
\* transaction, the exception raised and the list returned.
NoWrites == [t \in Tables |-> {}]
Idle ==
    [pc |-> "idle", cls |-> "", items |-> <<>>, plan |-> <<>>, step |-> 0,
     existing_pks |-> {}, writes |-> NoWrites, err |-> "", result |-> <<>>]

NoCall ==
    [op |-> "none", cls |-> "", items |-> <<>>, err |-> "", result |-> <<>>,
     ops |-> <<>>, pre |-> [t \in Tables |-> {}], again |-> FALSE,
     first |-> <<>>]

Init ==
    /\ db = [t \in Tables |-> {}]
    /\ calls = 0
    /\ last = NoCall
    /\ ensured = [t \in Tables |-> {}]
    /\ txns = [p \in Procs |-> Idle]

\* The records an instance brings along: itself and, at every depth, the
\* instances made of the mappings given for its references (models.py
\* 176-181), as <<class, key>> pairs.
RECURSIVE Referenced(_)
Referenced(instance) ==
    {<<instance.cls, instance.pk>>} \cup
    UNION {Referenced(Payload(instance.rel[n])) :
             n \in {m \in DOMAIN instance.rel : instance.rel[m] # None}}

\* The records of a normalised batch: the instances, the instances
\* accumulated for their reverse relations (models.py 58-71), and what
\* each brings along.
ReferencedBy(normal) ==
    UNION {Referenced(instance) :
             instance \in Range(normal.instances) \cup
                          UNION {normal.related_mapping[key] :
                                   key \in DOMAIN normal.related_mapping}}

\* The records a call of cls.objects.ensure(items) resolves.
Resolved(cls, items) ==
    ReferencedBy(Normalize(cls, items,
                    [instances |-> <<>>, related_mapping |-> EmptyRelations,
                     err |-> ""]))

\* The store operations a call makes when the store does not fail: the
\* store may fail at any one of them.
FailPoints(out) == 0..Len(out.ops)

\* The call returns: its writes are committed or rolled back, and the
\* caller holds what it returned.
Returns(op, cls, items, out, again, first, resolved) ==
    /\ db' = out.db
    /\ last' = [op |-> op, cls |-> cls, items |-> items, err |-> out.err,
                result |-> out.result, ops |-> out.ops, pre |-> db,
                again |-> again, first |-> first]
    /\ calls' = calls + 1
    /\ UNCHANGED txns
    /\ ensured' = IF out.err # "" THEN ensured
                  ELSE [t \in Tables |->
                          ensured[t] \cup
                          {p[2] : p \in {q \in resolved \cup
                                         {<<out.result[i].cls, out.result[i].pk>> :
                                            i \in DOMAIN out.result} :
                                         q[1] = t}}]

\* A caller calls cls.objects.ensure(items).
Ensure(cls, items) ==
    /\ last.op = "none"
    /\ calls < MaxCalls
    /\ \E failAt \in FailPoints(ensure(cls, items, db, 0)) :
          Returns("ensure", cls, items, ensure(cls, items, db, failAt),
                  FALSE, <<>>, Resolved(cls, items))

\* The caller repeats the ensure call that has just returned.
EnsureAgain ==
    /\ last.op = "ensure"
    /\ last.err = ""
    /\ ~last.again
    /\ calls < MaxCalls
    /\ Returns("ensure", last.cls, last.items,
               ensure(last.cls, last.items, db, 0), TRUE, last.result,
               Resolved(last.cls, last.items))

\* A caller calls HashedList.objects.ensure_list(TestItem, items).
EnsureList(items) ==
    /\ last.op = "none"
    /\ calls < MaxCalls
    /\ \E failAt \in FailPoints(ensure_list(TestItem, items, db, 0)) :
          Returns("ensure_list", TestItem, items,
                  ensure_list(TestItem, items, db, failAt), FALSE, <<>>,
                  Resolved(TestItem, items))

\* The caller takes what the call returned (or the exception it raised).
Return ==
    /\ last.op # "none"
    /\ last' = NoCall
    /\ UNCHANGED <<db, calls, ensured, txns>>

Next ==
    \/ \E cls \in EnsuredModels : \E items \in Batches(cls) : Ensure(cls, items)
    \/ EnsureAgain
    \/ \E items \in Batches(TestItem) : EnsureList(items)
    \/ Return

Spec == Init /\ [][Next]_vars

---------------------------------------------------------------------------
(* freeze and make_hash on their own: a caller holds two values, nested    *)
(* to a depth of at most MaxDepth, and freezes or hashes both.             *)

MaxDepth == 2

\* The numbers at the leaves of the values.
Leaves == {PyInt(1), PyInt(2)}

\* The containers of two different elements of V: a mapping with the keys
\* inserted in either order, and a list.
Containers(V) ==
    UNION {{Dict(<< <<"name", p[1]>>, <<"text", p[2]>> >>),
            Dict(<< <<"text", p[2]>>, <<"name", p[1]>> >>),
            List(<<p[1], p[2]>>)} : p \in {q \in V \X V : q[1] # q[2]}}

\* The sets of two numbers, walked in either order.
LeafSets ==
    {<<"set", <<p[1], p[2]>> >> :
        p \in {q \in Leaves \X Leaves : q[1] # q[2]}}

Grow(V) == V \cup Containers(V \ LeafSets) \cup LeafSets

RECURSIVE Values(_)
Values(depth) == IF depth = 0 THEN Leaves ELSE Grow(Values(depth - 1))

\* The caller holds the values a and b (last.items).
FreezeInit ==
    /\ db = [t \in Tables |-> {}]
    /\ calls = 0
    /\ ensured = [t \in Tables |-> {}]
    /\ txns = [p \in Procs |-> Idle]
    /\ last \in {[NoCall EXCEPT !.op = "values", !.items = <<a, b>>] :
                    a \in Values(MaxDepth), b \in Values(MaxDepth)}

\* The caller calls freeze on both (models.py 8-22).
Freeze ==
    /\ last.op = "values"
    /\ last' = [last EXCEPT !.op = "freeze",
                            !.result = <<freeze(last.items[1]),
                                         freeze(last.items[2])>>]
    /\ UNCHANGED <<db, calls, ensured, txns>>

\* The caller calls make_hash on both (models.py 25-26).
MakeHash ==
    /\ last.op = "values"
    /\ last' = [last EXCEPT !.op = "make_hash",
                            !.result = <<make_hash(last.items[1]),
                                         make_hash(last.items[2])>>]
    /\ UNCHANGED <<db, calls, ensured, txns>>

FreezeNext == Freeze \/ MakeHash

FreezeSpec == FreezeInit /\ [][FreezeNext]_vars

---------------------------------------------------------------------------
(* Concurrent ensure calls.  Each caller runs ensure in a transaction of   *)
(* its own, one store operation at a time.  The store is taken to work at  *)
(* READ COMMITTED: an existence query sees the committed rows and the rows *)
(* of its own transaction; an INSERT of a key that another open            *)
(* transaction has written waits for that transaction to end; an INSERT    *)
(* of a key that is committed is rejected.                                 *)

\* The items the concurrent callers pass: mappings with every reference
\* given, so that the insert steps of a call do not depend on the store.
ConcurrentItems(cls) ==
    CASE cls = TestModel ->
           {Dict(TestModelData("a", 1)), Dict(TestModelData("c", 1))}
      [] cls = TestDeepReferencesDuplicateModel -> {DeepData("c")}
      [] OTHER -> {}

ConcurrentModels == {TestModel, TestDeepReferencesDuplicateModel}

ConcurrentBatches(cls) ==
    UNION {[1..n -> ConcurrentItems(cls)] : n \in 0..MaxBatch}

RECURSIVE EnsureSteps(_, _)
RECURSIVE ReferenceSteps(_, _, _, _)
RECURSIVE RelatedSteps(_, _, _)

\* models.py 88-119 for the instances cut down to one per key: the steps
\* for the referenced tables, then the step for the table itself.
InsertStepsUnique(InsertModel, unique, skip_ensure) ==
    ReferenceSteps(TableReferences(InsertModel, 1, <<>>), 1, unique,
                   skip_ensure)
    \o << [table |-> InsertModel, instances |-> unique] >>

\* The insert steps of _do_insert (models.py 81-119).
InsertSteps(InsertModel, instances, skip_ensure) ==
    InsertStepsUnique(InsertModel, DedupByPk(instances, <<>>), skip_ensure)

\* The loop of models.py 100-105 from the k-th referenced table on.
ReferenceSteps(refs, k, instances, skip_ensure) ==
    IF k > Len(refs) THEN <<>>
    ELSE (IF refs[k].table \in skip_ensure THEN <<>>
          ELSE EnsureSteps(refs[k].table,
                           RelatedItems(NoWrites, instances,
                                        refs[k].field_names)))
         \o ReferenceSteps(refs, k + 1, instances, skip_ensure)

\* The loop of models.py 76-77 over the relations accumulated.
RelatedSteps(cls, related_mapping, keys) ==
    IF keys = <<>> THEN <<>>
    ELSE InsertSteps(Head(keys)[1], SetToSeq(related_mapping[Head(keys)]),
                     {cls})
         \o RelatedSteps(cls, related_mapping, Tail(keys))

\* models.py 73-79, given the normalised items
StepsOfNormal(cls, normal) ==
    InsertSteps(cls, normal.instances, {})
    \o RelatedSteps(cls, normal.related_mapping,
                    SetToSeq(DOMAIN normal.related_mapping))

\* The insert steps of _ensure_impl (models.py 51-79).
EnsureSteps(cls, items) ==
    StepsOfNormal(cls,
        Normalize(cls, items,
                  [instances |-> <<>>, related_mapping |-> EmptyRelations,
                   err |-> ""]))

\* The caller goes on to the next insert step that has instances (for an
\* empty batch there is no store operation), and to the end of the
\* transaction after the last.
RECURSIVE NextStep(_)
NextStep(txn) ==
    IF txn.step >= Len(txn.plan)
    THEN [txn EXCEPT !.pc = "commit", !.step = Len(txn.plan) + 1]
    ELSE IF txn.plan[txn.step + 1].instances = <<>>
    THEN NextStep([txn EXCEPT !.step = @ + 1])
    ELSE [txn EXCEPT !.pc = "query", !.step = @ + 1, !.existing_pks = {}]

\* models.py 58-73, given the normalised items
Begun(cls, items, normal) ==
    IF normal.err # ""
    THEN [Idle EXCEPT !.pc = "failed", !.cls = cls, !.items = items,
                      !.err = normal.err]
    ELSE NextStep([Idle EXCEPT !.cls = cls, !.items = items,
                               !.plan = StepsOfNormal(cls, normal),
                               !.result = DedupByPk(normal.instances, <<>>)])

\* The keys of the step the caller is at.
StepPks(txn) ==
    {txn.plan[txn.step].instances[i].pk :
        i \in DOMAIN txn.plan[txn.step].instances}

\* The rows the INSERT of the step writes (models.py 115-117).
StepRows(txn) ==
    {RowOf(txn.plan[txn.step].table, txn.plan[txn.step].instances[i]) :
        i \in {j \in DOMAIN txn.plan[txn.step].instances :
                 txn.plan[txn.step].instances[j].pk \notin txn.existing_pks}}

\* A faulty transaction, told apart by C23: the rows written before the
\* INSERT that was rejected are committed.
CommittedAnyway(store, txn) ==
    [t \in Tables |-> store[t] \cup txn.writes[t]]

\* transaction.atomic (models.py 38): the store after the transaction of
\* a call that raised was rolled back.
RolledBack(store, txn) == store

\* A caller calls cls.objects.ensure(items): the transaction begins and
\* the items are normalised (models.py 38-39, 58-71).
Begin(p, cls, items) ==
    /\ txns[p].pc = "idle"
    /\ calls < MaxCalls
    /\ calls' = calls + 1
    /\ txns' = [txns EXCEPT ![p] =
                  Begun(cls, items,
                        Normalize(cls, items,
                                  [instances |-> <<>>,
                                   related_mapping |-> EmptyRelations,
                                   err |-> ""]))]
    /\ UNCHANGED <<db, last, ensured>>

\* The existence query of a step (models.py 108-114).
Query(p) ==
    /\ txns[p].pc = "query"
    /\ txns' = [txns EXCEPT ![p] =
          IF StepPks(txns[p]) \subseteq
                Pks(db[txns[p].plan[txns[p].step].table]
                    \cup txns[p].writes[txns[p].plan[txns[p].step].table])
          THEN NextStep(txns[p])
          ELSE [txns[p] EXCEPT
                  !.pc = "insert",
                  !.existing_pks =
                      StepPks(txns[p]) \cap
                      Pks(db[txns[p].plan[txns[p].step].table]
                          \cup txns[p].writes[txns[p].plan[txns[p].step].table])]]
    /\ UNCHANGED <<db, calls, last, ensured>>

\* The INSERT of a step (models.py 115-117): it waits while another open
\* transaction holds one of its keys; the store rejects it when one of its
\* keys is committed, the call raises and its transaction is rolled back.
Insert(p) ==
    /\ txns[p].pc = "insert"
    /\ \A q \in Procs \ {p} :
          txns[q].pc \in {"query", "insert", "commit"} =>
             Pks(txns[q].writes[txns[p].plan[txns[p].step].table])
                \cap Pks(StepRows(txns[p])) = {}
    /\ IF Pks(StepRows(txns[p])) \cap
             Pks(db[txns[p].plan[txns[p].step].table]
                 \cup txns[p].writes[txns[p].plan[txns[p].step].table]) # {}
       THEN /\ txns' = [txns EXCEPT ![p] =
                          [@ EXCEPT !.pc = "failed",
                                    !.err = "IntegrityError",
                                    !.result = <<>>]]
            /\ db' = RolledBack(db, txns[p])
       ELSE /\ txns' = [txns EXCEPT ![p] =
                          NextStep([@ EXCEPT
                             !.writes[txns[p].plan[txns[p].step].table] =
                                 @ \cup StepRows(txns[p])])]
            /\ db' = db
    /\ UNCHANGED <<calls, last, ensured>>

\* The call returns and its transaction is committed (models.py 49).
Commit(p) ==
    /\ txns[p].pc = "commit"
    /\ db' = [t \in Tables |-> db[t] \cup txns[p].writes[t]]
    /\ txns' = [txns EXCEPT ![p].pc = "done"]
    /\ UNCHANGED <<calls, last, ensured>>

ConcurrentNext ==
    \E p \in Procs :
        \/ \E cls \in ConcurrentModels :
              \E items \in ConcurrentBatches(cls) : Begin(p, cls, items)
        \/ Query(p)
        \/ Insert(p)
        \/ Commit(p)

ConcurrentSpec == Init /\ [][ConcurrentNext]_vars

---------------------------------------------------------------------------
(* What the properties look at: the call that has just returned.           *)

Succeeded(op) == last.op = op /\ last.err = ""

\* The content hash an input item stands for: the hash of the instance made
\* of a mapping, the content_hash an instance carries, and the hash of its
\* hash_fields when it carries none (models.py 60-69).
ItemHash(cls, item) ==
    CASE Tag(item) = "dict" -> from_dict(cls, item).inst.pk
      [] Tag(item) = "obj" ->
           IF Truthy(Payload(item).pk) THEN Payload(item).pk
           ELSE get_content_hash(Payload(item), EmptyRelations)
      [] OTHER -> None

ItemHashes == {ItemHash(last.cls, last.items[i]) : i \in DOMAIN last.items}
ResultHashes == {last.result[i].pk : i \in DOMAIN last.result}
AllMappings == \A i \in DOMAIN last.items : Tag(last.items[i]) = "dict"

\* The INSERTs of the call into a table, by their place in the log.
InsertOps(table) ==
    {k \in DOMAIN last.ops :
        last.ops[k].op = "insert" /\ last.ops[k].table = table}

\* The value given for a key of a mapping, None when there is none.
ValueOf(item, name) ==
    IF \E i \in DOMAIN Payload(item) : Payload(item)[i][1] = name
    THEN Payload(item)[CHOOSE i \in DOMAIN Payload(item) :
                          Payload(item)[i][1] = name][2]
    ELSE None

\* The classes whose mappings carry reverse-relation children under `items`.
ParentModels == {TestBackrefModel, TestOrderedList}
ChildModel(cls) == get_field(cls, "items").to
BackPointer(cls) == get_field(cls, "items").remote

\* The content hashes of the children a parent mapping supplies.
ChildHashes(cls, item) ==
    IF ValueOf(item, "items") = None THEN {}
    ELSE {from_dict(ChildModel(cls), child).inst.pk :
            child \in Range(Payload(ValueOf(item, "items")))}

\* The keys of the stored child rows whose back-pointer is the key parent.
StoredChildren(cls, parent) ==
    {row.pk : row \in {r \in db[ChildModel(cls)] :
                         r.flds[BackPointer(cls)] = parent}}

\* The scalar part of a parent mapping: all but its children.
Scalars(item) ==
    {Payload(item)[i] : i \in {j \in DOMAIN Payload(item) :
                                 Payload(item)[j][1] # "items"}}

\* The value of a hash field of a stored row, as the store holds it: a
\* column, the row a reference names, the keys of the rows that point back.
StoredField(table, row, field_name) ==
    LET field == get_field(table, field_name) IN
    CASE field.kind = "rev" ->
           <<"set", SetToSeq({child.pk : child \in {c \in db[field.to] :
                                             c.flds[field.remote] = row.pk}})>>
      [] field.kind = "fk" /\ field_name = field.name ->
           GetRelated(db, [cls |-> table, flds |-> row.flds, pk |-> row.pk,
                           rel |-> [n \in FKNames(table) |-> None]],
                      field_name)
      [] OTHER -> row.flds[field.attname]

\* Hash(Canonicalize(the values of the row's hash_fields)).
StoredHash(table, row) ==
    make_hash(Dict([i \in DOMAIN hash_fields(table) |->
                      <<hash_fields(table)[i],
                        StoredField(table, row, hash_fields(table)[i])>>]))

---------------------------------------------------------------------------
(* The properties.                                                         *)

C2_Idempotence ==
    (last.op = "ensure" /\ last.again) =>
        /\ last.err = ""
        /\ \A k \in DOMAIN last.ops : last.ops[k].op # "insert"
        /\ db = last.pre
        /\ ResultHashes = {last.first[i].pk : i \in DOMAIN last.first}

\* the repeated call of a batch with nested references that the first call
\* wrote
C2_Witness ==
    /\ last.op = "ensure"
    /\ last.again
    /\ last.cls = TestReferencesModel
    /\ AllMappings
    /\ Cardinality(db[TestReferencesModel]) = 2
    /\ db[TestModel] # {}

\* C3 - uniqueness invariant: every table keyed by a content hash holds at
\* most one row per hash, and as many rows as there are distinct hashes of
\* its class among the records ensured so far.
C3_RowPerEnsuredHash ==
    \A t \in HashedModels \cup {HashedList} :
        /\ \A r1, r2 \in db[t] : r1.pk = r2.pk => r1 = r2
        /\ Cardinality(db[t]) = Cardinality(ensured[t])

\* C4 - content-hash invariant: every row that an ensure of mappings writes
\* has for content_hash the hash of the values of its hash_fields as the
\* row holds them, the back-pointer of a reverse-relation child included.
C4_ContentHashInvariant ==
    (Succeeded("ensure") /\ AllMappings) =>
        \A t \in HashedModels : \A k \in InsertOps(t) :
            \A row \in last.ops[k].rows : row.pk = StoredHash(t, row)

C6_ResultPerInput ==
    (/\ Succeeded("ensure")
     /\ Len(last.items) = 2
     /\ ItemHash(last.cls, last.items[1]) = ItemHash(last.cls, last.items[2]))
    =>
        /\ Cardinality({row \in db[last.cls] :
                          row.pk = ItemHash(last.cls, last.items[1])}) = 1
        /\ Len(last.result) = 2
        /\ last.result[1] = last.result[2]

\* C6 as the code has it - ensure([a, b]) with a and b of identical content
\* stores one row and returns a result of length 1: the one record of that
\* content hash.
C6_ResultPerHash ==
    (/\ Succeeded("ensure")
     /\ Len(last.items) = 2
     /\ ItemHash(last.cls, last.items[1]) = ItemHash(last.cls, last.items[2]))
    =>
        /\ Cardinality({row \in db[last.cls] :
                          row.pk = ItemHash(last.cls, last.items[1])}) = 1
        /\ Len(last.result) = 1
        /\ last.result[1].pk = ItemHash(last.cls, last.items[1])

\* ensure([a, a]) on TestModel with a not stored before
C6_Witness ==
    /\ Succeeded("ensure")
    /\ last.cls = TestModel
    /\ Len(last.items) = 2
    /\ last.items[1] = last.items[2]
    /\ ItemHash(TestModel, last.items[1]) \notin Pks(last.pre[TestModel])
    /\ Len(last.result) = 1

\* C7 - write ordering: every row an ensure call writes references only
\* rows that the store held before the call or that an earlier INSERT of
\* the call wrote.
C7_ReferencedRowsFirst ==
    Succeeded("ensure") =>
        \A k \in DOMAIN last.ops : last.ops[k].op = "insert" =>
            \A row \in last.ops[k].rows :
                \A f \in {g \in ConcreteFields(last.ops[k].table) :
                            g.kind = "fk"} :
                    row.flds[f.attname] # None =>
                        row.flds[f.attname] \in
                            Pks(last.pre[f.to]) \cup
                            UNION {last.ops[j].pks :
                                     j \in {i \in InsertOps(f.to) : i < k}}

\* C8 - atomicity: a call of ensure or ensure_list that raised left every
\* table as it was before the call and returned nothing.
C8_Atomicity ==
    (last.op # "none" /\ last.err # "") =>
        /\ db = last.pre
        /\ last.result = <<>>

\* the store failed after the call had written the referenced records
C8_Witness ==
    /\ last.op = "ensure"
    /\ last.cls = TestReferencesModel
    /\ last.err = "DatabaseError"
    /\ InsertOps(TestModel) # {}
    /\ db = last.pre

\* C9 - reverse-relation children are stored under their parent: after an
\* ensure of parent mappings, every child a parent's mapping supplies is a
\* stored row whose back-pointer is that parent's content hash (the least
\* that "exactly the children supplied" asks for).
C9_ChildrenUnderParent ==
    (Succeeded("ensure") /\ last.cls \in ParentModels /\ AllMappings) =>
        \A i \in DOMAIN last.items :
            ChildHashes(last.cls, last.items[i]) \subseteq
                StoredChildren(last.cls, ItemHash(last.cls, last.items[i]))

InputListHash ==
    make_hash(List([i \in DOMAIN last.items |->
                      ItemHash(last.cls, last.items[i])]))

\* C11 - ordered-list identity: the list that ensure_list(ItemModel, items)
\* returns has for list_hash the hash of the full input sequence of item
\* content hashes, repeated items counted.
C11_ListIdentity ==
    Succeeded("ensure_list") => last.result[1].pk = InputListHash

\* HashedListItemModelManager.get_list: the membership rows of a list.
get_list(list_hash) ==
    {row \in db[TestListItem] : row.flds["list_hash_id"] = list_hash}

\* The positions of a list's membership rows are 1..n, one row each.
DensePositions(list_hash) ==
    \A i \in 1..Cardinality(get_list(list_hash)) :
        \E row \in get_list(list_hash) : row.flds["order"] = PyInt(i)

\* The item keys of a list read back in position order (Meta.ordering).
ReadBack(list_hash) ==
    [i \in 1..Cardinality(get_list(list_hash)) |->
        (CHOOSE row \in get_list(list_hash) :
            row.flds["order"] = PyInt(i)).flds["item_id"]]

\* C12 - ordered-list membership: every stored list has membership rows at
\* the positions 1..n, its list_hash is the hash of the item hashes read
\* back in position order, and the list that an ensure_list call created
\* has one membership row per input item, n the input length, the item at
\* position i being the i-th input item.
C12_ListMembership ==
    /\ \A lst \in db[HashedList] :
          /\ DensePositions(lst.pk)
          /\ lst.pk = make_hash(List(ReadBack(lst.pk)))
    /\ (/\ Succeeded("ensure_list")
        /\ last.result[1].pk \notin Pks(last.pre[HashedList]))
       =>
          /\ Cardinality(get_list(last.result[1].pk)) = Len(last.items)
          /\ \A i \in DOMAIN last.items :
                \E row \in get_list(last.result[1].pk) :
                    /\ row.flds["order"] = PyInt(i)
                    /\ row.flds["item_id"] = ItemHash(TestItem, last.items[i])

\* C13 - re-ensuring an existing list: an ensure_list call whose list_hash
\* has a list row already returns that row, the one an earlier call
\* returned, and writes nothing: it makes no INSERT and leaves every table
\* as it was.
C13_ReensureList ==
    (/\ Succeeded("ensure_list")
     /\ last.result[1].pk \in Pks(last.pre[HashedList]))
    =>
        /\ last.result[1].pk \in ensured[HashedList]
        /\ \A k \in DOMAIN last.ops : last.ops[k].op # "insert"
        /\ db = last.pre

\* a list of two items is ensured a second time
C13_Witness ==
    /\ Succeeded("ensure_list")
    /\ Len(last.items) = 2
    /\ last.items[1] # last.items[2]
    /\ last.result[1].pk \in Pks(last.pre[HashedList])
    /\ Cardinality(get_list(last.result[1].pk)) = 2
    /\ last.ops # <<>>

\* An item that is neither a mapping nor an instance of the class.
InvalidKind(cls, item) ==
    ~(\/ Tag(item) = "dict"
      \/ Tag(item) = "obj" /\ Payload(item).cls = cls)

\* C14 - invalid input kind: an ensure call on a class, one of whose items
\* is neither a mapping nor an instance of that class, raises the
\* invalid-input error (ValueError) before any store operation and leaves
\* every table as it was; an instance of another HashedModel class is not
\* written into the class's table.
C14_InvalidInputKind ==
    (/\ last.op = "ensure"
     /\ \E i \in DOMAIN last.items : InvalidKind(last.cls, last.items[i]))
    =>
        /\ last.err = "ValueError"
        /\ last.ops = <<>>
        /\ db = last.pre

\* C15 - re-hash of instance inputs: every instance of the class passed to
\* ensure is stored and returned under the hash of its hash_fields, also
\* when it came with a content_hash of its own.
C15_RecordRehashed ==
    Succeeded("ensure") =>
        \A i \in DOMAIN last.items :
            (Tag(last.items[i]) = "obj" /\ Payload(last.items[i]).cls = last.cls)
            =>
                /\ get_content_hash(Payload(last.items[i]), EmptyRelations)
                       \in ResultHashes
                /\ get_content_hash(Payload(last.items[i]), EmptyRelations)
                       \in Pks(db[last.cls])

\* Python's ==: mappings are equal when they hold the same keys with equal
\* values, sets when they hold the same elements, lists element by element.
RECURSIVE PyEq(_, _)
PyEq(a, b) ==
    IF Tag(a) # Tag(b) THEN FALSE
    ELSE CASE Tag(a) = "dict" ->
                /\ {Payload(a)[i][1] : i \in DOMAIN Payload(a)}
                     = {Payload(b)[i][1] : i \in DOMAIN Payload(b)}
                /\ \A i \in DOMAIN Payload(a) :
                      PyEq(Payload(a)[i][2], ValueOf(b, Payload(a)[i][1]))
           [] Tag(a) = "list" ->
                /\ Len(Payload(a)) = Len(Payload(b))
                /\ \A i \in DOMAIN Payload(a) :
                      PyEq(Payload(a)[i], Payload(b)[i])
           [] Tag(a) = "set" -> Range(Payload(a)) = Range(Payload(b))
           [] OTHER -> a = b

C17_InsertOnly ==
    [][\A t \in Tables : db[t] \subseteq db'[t]]_vars

\* a call has ensured a mapping whose hash names a row that an earlier call
\* wrote with other field values: the row is as it was
C17_Witness ==
    /\ Succeeded("ensure")
    /\ last.cls = TestModel
    /\ \E i \in DOMAIN last.items :
          /\ Tag(last.items[i]) = "dict"
          /\ \E row \in last.pre[TestModel] :
                /\ row.pk = ItemHash(TestModel, last.items[i])
                /\ row.flds # from_dict(TestModel, last.items[i]).inst.flds
                /\ row \in db[TestModel]

\* The mapping of the field values an instance was constructed from.
AsMapping(instance) ==
    Dict([i \in DOMAIN ModelFields(instance.cls) |->
            <<ModelFields(instance.cls)[i].name,
              instance.flds[ModelFields(instance.cls)[i].attname]>>])

\* The classes without references among their hash_fields.
PlainModels == {TestModel, TestItem}

\* The items are instances of the class, constructed from field values.
AllRecords ==
    /\ last.items # <<>>
    /\ \A i \in DOMAIN last.items :
          /\ Tag(last.items[i]) = "obj"
          /\ Payload(last.items[i]).cls = last.cls
          /\ ~Truthy(Payload(last.items[i]).pk)

\* C18 - mappings and instances agree: for a class without references, an
\* ensure of instances constructed from field values returns the same
\* content hashes, leaves the same rows and makes the same store
\* operations as the ensure of the mappings of these field values on the
\* same store; when the mappings' hashes are stored already, it writes
\* nothing.
C18_MappingRecordAgree ==
    (Succeeded("ensure") /\ last.cls \in PlainModels /\ AllRecords) =>
        LET mapped == ensure(last.cls,
                             [i \in DOMAIN last.items |->
                                AsMapping(Payload(last.items[i]))],
                             last.pre, 0)
        IN /\ mapped.err = ""
           /\ {mapped.result[i].pk : i \in DOMAIN mapped.result} = ResultHashes
           /\ mapped.db = db
           /\ mapped.ops = last.ops
           /\ ItemHashes \subseteq Pks(last.pre[last.cls]) =>
                 /\ InsertOps(last.cls) = {}
                 /\ db = last.pre

\* two instances are ensured, one whose content was stored before, one
\* that the call writes
C18_Witness ==
    /\ Succeeded("ensure")
    /\ last.cls = TestItem
    /\ AllRecords
    /\ Len(last.items) = 2
    /\ ItemHash(TestItem, last.items[1]) \in Pks(last.pre[TestItem])
    /\ ItemHash(TestItem, last.items[2]) \notin Pks(last.pre[TestItem])
    /\ ItemHash(TestItem, last.items[2]) \in Pks(db[TestItem])

\* The keys a table holds when the call makes its k-th store operation.
StoreAt(k, table) ==
    Pks(last.pre[table]) \cup
    UNION {last.ops[j].pks : j \in {i \in InsertOps(table) : i < k}}

\* The existence queries of the call on a table, by their place in the log.
QueryOps(table) ==
    {k \in DOMAIN last.ops :
        last.ops[k].op = "query" /\ last.ops[k].table = table}

\* C19 - minimal writes: in an ensure call every INSERT comes right after
\* the existence query of its table and writes exactly the keys of the
\* query that the table did not hold, one row each; an existence query
\* that finds every key is followed by no INSERT; the class's own table is
\* queried once, for the distinct hashes of the batch; and no key is in two
\* INSERTs of the call, whatever the reference paths that lead to it.
C19_MinimalWrites ==
    last.op = "ensure" =>
        /\ \A k \in DOMAIN last.ops :
              last.ops[k].op = "insert" =>
                 /\ k > 1
                 /\ last.ops[k - 1].op = "query"
                 /\ last.ops[k - 1].table = last.ops[k].table
                 /\ last.ops[k].pks # {}
                 /\ last.ops[k].pks =
                       last.ops[k - 1].pks \ StoreAt(k, last.ops[k].table)
                 /\ Cardinality(last.ops[k].rows)
                       = Cardinality(last.ops[k].pks)
        /\ last.err = "" =>
              /\ \A k \in DOMAIN last.ops :
                    (/\ last.ops[k].op = "query"
                     /\ (k = Len(last.ops) \/ last.ops[k + 1].op # "insert"))
                    => last.ops[k].pks \subseteq StoreAt(k, last.ops[k].table)
              /\ \A k \in QueryOps(last.cls) : last.ops[k].pks = ItemHashes
              /\ Cardinality(QueryOps(last.cls)) <= 1
        /\ \A t \in Tables : \A j, k \in InsertOps(t) :
              j < k => last.ops[j].pks \cap last.ops[k].pks = {}

\* a record reached through two reference paths: the call wrote it on the
\* first path and found it by the existence query of the second
C19_Witness ==
    /\ Succeeded("ensure")
    /\ last.cls = TestDeepReferencesDuplicateModel
    /\ \E j \in InsertOps(TestModel) : \E k \in QueryOps(TestModel) :
          /\ j < k
          /\ last.ops[k].pks \subseteq last.ops[j].pks
          /\ k + 1 \notin InsertOps(TestModel)
    /\ InsertOps(TestDeepReferencesDuplicateModel) # {}

\* C20 - termination of the dependency recursion: every ensure call, on
\* every class and every batch, the empty batch and a class that
\* references itself included, comes to an end by itself: the nesting of
\* _ensure_impl calls never reaches the interpreter's recursion limit.
C20_RecursionEnds ==
    last.op = "ensure" => last.err # "RecursionError"

\* C21 - referential closure: in every committed state, every ForeignKey
\* value of every stored row (a forward reference or a back-pointer) is the
\* key of a row stored in the table the ForeignKey refers to.
C21_ReferentialClosure ==
    \A t \in Tables : \A row \in db[t] :
        \A f \in {g \in ConcreteFields(t) : g.kind = "fk"} :
            row.flds[f.attname] # None =>
                row.flds[f.attname] \in Pks(db[f.to])

\* The name of the child's ForeignKey that is the back-pointer to the parent.
BackPointerName(cls) ==
    (CHOOSE f \in ConcreteFields(ChildModel(cls)) :
        f.attname = BackPointer(cls)).name

\* The records of the parent's class nested in a parent mapping: the
\* mappings its children give for their ForeignKey to the parent's class.
NestedParents(cls, item) ==
    IF ValueOf(item, "items") = None THEN {}
    ELSE {ValueOf(child, BackPointerName(cls)) :
            child \in {c \in Range(Payload(ValueOf(item, "items"))) :
                         Tag(ValueOf(c, BackPointerName(cls))) = "dict"}}

\* The hash of a parent mapping when its reverse field stands for the
\* hashes of the children supplied directly in it.
DirectHash(cls, item) ==
    make_hash(Dict([i \in DOMAIN hash_fields(cls) |->
        <<hash_fields(cls)[i],
          IF hash_fields(cls)[i] = "items"
          THEN <<"set", SetToSeq(ChildHashes(cls, item))>>
          ELSE ValueOf(item, hash_fields(cls)[i])>>]))

\* C22 - the back-patch targets the direct parent only: after an ensure of
\* parent mappings, the content hash of each parent is the hash with the
\* set of the hashes of the children supplied directly in its mapping, and
\* the children supplied in the mapping of a nested record of the parent's
\* class are stored with that nested record's hash as their back-pointer.
C22_DirectParentOnly ==
    (Succeeded("ensure") /\ last.cls \in ParentModels /\ AllMappings) =>
        \A i \in DOMAIN last.items :
            /\ ItemHash(last.cls, last.items[i])
                 = DirectHash(last.cls, last.items[i])
            /\ \A nested \in NestedParents(last.cls, last.items[i]) :
                  \A row \in db[ChildModel(last.cls)] :
                      row.pk \in ChildHashes(last.cls, nested) =>
                          row.flds[BackPointer(last.cls)]
                              = ItemHash(last.cls, nested)

\* C23 - concurrent ensure calls: however the store operations of the
\* calls interleave, no table holds two rows of one key; the store holds
\* exactly the rows written by the calls that returned, all the rows of
\* each; a call that returned has every record of its insert steps stored;
\* and a call whose INSERT the store rejected raised the store's error,
\* returned nothing, and left none of its writes.
C23_ConcurrentEnsure ==
    /\ \A t \in Tables : \A r1, r2 \in db[t] : r1.pk = r2.pk => r1 = r2
    /\ \A t \in Tables :
          db[t] = UNION {txns[p].writes[t] :
                           p \in {q \in Procs : txns[q].pc = "done"}}
    /\ \A p \in Procs :
          /\ txns[p].pc = "done" =>
                \A k \in DOMAIN txns[p].plan :
                    \A i \in DOMAIN txns[p].plan[k].instances :
                        txns[p].plan[k].instances[i].pk
                            \in Pks(db[txns[p].plan[k].table])
          /\ txns[p].pc = "failed" =>
                /\ txns[p].err # ""
                /\ txns[p].result = <<>>

\* two calls made their existence checks before either wrote; one returned,
\* the other had written referenced records when its INSERT of the key the
\* first had committed was rejected, and none of its rows is stored
C23_Witness ==
    \E p, q \in Procs :
        /\ txns[q].pc = "done"
        /\ txns[p].pc = "failed"
        /\ txns[p].err = "IntegrityError"
        /\ txns[p].step \in DOMAIN txns[p].plan
        /\ txns[p].plan[txns[p].step].table = TestModel
        /\ txns[p].existing_pks = {}
        /\ txns[p].writes[TestModel] # {}
        /\ txns[p].writes[TestReferencesModel] # {}
        /\ txns[p].writes[TestModel] \cap db[TestModel] = {}
        /\ db[TestReferencesModel] = {}
        /\ db[TestModel] # {}

=============================================================================
